---- MODULE Spec2Model ----
(***************************************************************************)
(* Column lineage inference and assembly of the Marquez sync tool          *)
(* (dbt-redshift-openlineage/marquez_lineage/marquez_lineage_sync.py).     *)
(*                                                                         *)
(* SQL text is a sequence of tokens.  A token is one whitespace character, *)
(* one punctuation character, or one maximal run of word characters (the   *)
(* regex class \w).  Two word tokens are never adjacent: they would be one *)
(* word.  The regular expressions of the source are translated to          *)
(* predicates over token positions; leftmost-match and lazy-quantifier     *)
(* choices are made as Python's re.search makes them.                      *)
(***************************************************************************)
EXTENDS Integers, Sequences, FiniteSets, TLC

VARIABLES
    manifest,         \* MarquezSync.manifest: None (a dict with no keys here) before load_manifest
    returned,         \* names of the methods that have been called and returned
    target_node_id,   \* argument of the last build_column_lineage / create_openlineage_event
    column_lineage,   \* value returned by the last build_column_lineage
    warnings,         \* logger.warning records of the last call, in order
    event,            \* value returned by the last create_openlineage_event
    target_column,    \* argument of the engine calls
    compiled_code,    \* argument of the engine calls (raw SQL)
    source_column,    \* value returned by _infer_source_column
    transformation,   \* value returned by _determine_transformation_type
    sync,             \* the sync_model call in progress: its position, locals and HTTP requests
    calls             \* the build_column_lineage / create_openlineage_event calls made, with the maps they built

vars == <<manifest, returned, target_node_id, column_lineage, warnings, event,
          target_column, compiled_code, source_column, transformation, sync, calls>>

\* Python's None, and Optional[...] as a sequence of length at most one.
None == <<>>

Some(x) == <<x>>

\* A dict with no keys.  A dict is a function from its keys; d.get(k, default)
\* is Get(d, k, default) and d[k] = v is Put(d, k, v).
EmptyDict == [k \in {} |-> k]

Get(d, k, default) == IF k \in DOMAIN d THEN d[k] ELSE default

Put(d, k, v) == [x \in DOMAIN d \cup {k} |-> IF x = k THEN v ELSE d[x]]

\* ------------------------------------------------------------------------
\* Tokens
\* ------------------------------------------------------------------------

\* Characters matched by \s.
Whitespace == {" ", "\n", "\t"}

\* Characters matched by neither \w nor \s that occur in the modelled SQL.
Punctuation == {"(", ")", "=", ",", "+", "-", "*", "/", "."}

\* The character class [+\-*/] of the arithmetic patterns.
ArithmeticOps == {"+", "-", "*", "/"}

\* Word tokens made of digits only: what \d+ matches as a whole word.
Numbers == {"0", "1", "100"}

\* re.IGNORECASE: the lower-case form of the upper-case words of the alphabet.
Lower(tok) ==
    CASE tok = "AS" -> "as"
      [] tok = "SUM" -> "sum"
      [] tok = "CASE" -> "case"
      [] tok = "WHEN" -> "when"
      [] tok = "THEN" -> "then"
      [] tok = "T" -> "t"
      [] tok = "X" -> "x"
      [] OTHER -> tok

\* Token i of s, or "" past either end.
Tok(s, i) == IF i \in 1..Len(s) THEN s[i] ELSE ""

IsWs(tok) == tok \in Whitespace

IsWord(tok) == tok # "" /\ tok \notin Whitespace /\ tok \notin Punctuation

IsNum(tok) == tok \in Numbers

\* Words of the alphabet that end with a keyword without being it: the patterns
\* that start with a keyword carry no \b in front of it.
ProperSuffix == {<<"checksum", "sum">>}

\* Words of the alphabet that start with a keyword without being it.
ProperPrefix == {<<"whenever", "when">>}

EndsWith(tok, kw) == Lower(tok) = kw \/ <<Lower(tok), kw>> \in ProperSuffix

StartsWith(tok, kw) == Lower(tok) = kw \/ <<Lower(tok), kw>> \in ProperPrefix

Min(S) == CHOOSE i \in S : \A j \in S : i <= j

\* ------------------------------------------------------------------------
\* re.sub(r'\s+', ' ', compiled_code.strip())
\* ------------------------------------------------------------------------

RECURSIVE Strip(_)
Strip(s) ==
    IF s = <<>> THEN s
    ELSE IF IsWs(Head(s)) THEN Strip(Tail(s))
    ELSE IF IsWs(s[Len(s)]) THEN Strip(SubSeq(s, 1, Len(s) - 1))
    ELSE s

RECURSIVE Collapse(_)
Collapse(s) ==
    IF s = <<>> THEN s
    ELSE IF IsWs(Head(s))
         THEN IF Len(s) > 1 /\ IsWs(s[2])
              THEN Collapse(Tail(s))
              ELSE <<" ">> \o Collapse(Tail(s))
         ELSE <<Head(s)>> \o Collapse(Tail(s))

\* Variant: strip() without the re.sub that collapses the whitespace runs.
NormalizeStripOnly(code) == Strip(code)

Normalize(code) == Collapse(Strip(code))

\* ------------------------------------------------------------------------
\* Pattern pieces, over normalized text (every whitespace run is one " ")
\* ------------------------------------------------------------------------

\* \s* at position i: the position after it.
SkipWs(s, i) == IF IsWs(Tok(s, i)) THEN i + 1 ELSE i

\* \s+as\s+<target>\b starting at position i.
AliasAt(s, i, t) ==
    /\ IsWs(Tok(s, i))
    /\ Lower(Tok(s, i + 1)) = "as"
    /\ IsWs(Tok(s, i + 2))
    /\ Lower(Tok(s, i + 3)) = Lower(t)

\* as\s+<target>\b with "as" ending at token i (no \s+ or \b before "as").
LooseAliasAt(s, i, t) ==
    /\ EndsWith(Tok(s, i), "as")
    /\ IsWs(Tok(s, i + 1))
    /\ Lower(Tok(s, i + 2)) = Lower(t)

\* (\w+)\s+as\s+<target>\b : positions of the captured word.
DirectAliasAt(s, t) == {i \in 1..Len(s) : IsWord(s[i]) /\ AliasAt(s, i + 1, t)}

\* \w+\((\w+)\)\s+as\s+<target>\b : positions of the function name.
FunctionAliasAt(s, t) ==
    {i \in 1..Len(s) :
        /\ IsWord(s[i])
        /\ Tok(s, i + 1) = "("
        /\ IsWord(Tok(s, i + 2))
        /\ Tok(s, i + 3) = ")"
        /\ AliasAt(s, i + 4, t)}

\* (\w+)\s*[+\-*/]\s*\d+\s+as\s+<target>\b : positions of the captured word.
ArithmeticAt(s, t) ==
    {i \in 1..Len(s) :
        /\ IsWord(s[i])
        /\ LET j == SkipWs(s, i + 1)
               k == SkipWs(s, j + 1)
           IN  /\ Tok(s, j) \in ArithmeticOps
               /\ IsNum(Tok(s, k))
               /\ AliasAt(s, k + 1, t)}

\* when\s+(\w+)\s*= with "when" at position w: the position of "=", or 0.
WhenEq(s, w) ==
    IF /\ Lower(Tok(s, w)) = "when"
       /\ IsWs(Tok(s, w + 1))
       /\ IsWord(Tok(s, w + 2))
       /\ Tok(s, SkipWs(s, w + 3)) = "="
    THEN SkipWs(s, w + 3)
    ELSE 0

\* then\s+(\w+) with "then" ending at token q.
ThenAt(s, q) ==
    /\ EndsWith(Tok(s, q), "then")
    /\ IsWs(Tok(s, q + 1))
    /\ IsWord(Tok(s, q + 2))

\* case\s+when\s+(\w+)\s*=.*?then\s+(\w+).*?as\s+<target>\b :
\* positions of "case" from which the whole pattern matches.
CaseWhenAt(s, t) ==
    {i \in 1..Len(s) :
        /\ EndsWith(s[i], "case")
        /\ IsWs(Tok(s, i + 1))
        /\ LET e == WhenEq(s, i + 2)
           IN  /\ e > 0
               /\ \E q \in (e + 1)..Len(s) :
                    /\ ThenAt(s, q)
                    /\ \E r \in (q + 3)..Len(s) : LooseAliasAt(s, r, t)}

\* sum\s*\(\s*case\s+when\s+(\w+)\s*= with "sum" ending at token i:
\* the position of "when", or 0.
SumCaseHead(s, i) ==
    LET j == SkipWs(s, i + 1)
        k == SkipWs(s, j + 1)
    IN  IF /\ EndsWith(Tok(s, i), "sum")
           /\ Tok(s, j) = "("
           /\ Lower(Tok(s, k)) = "case"
           /\ IsWs(Tok(s, k + 1))
           /\ WhenEq(s, k + 2) > 0
        THEN k + 2
        ELSE 0

\* The lazy .*?then\s+(\w+).*?\)\s+as\s+<target>\b after the "=" at position e:
\* the positions of "then" from which the rest of the pattern matches.
SumCaseThen(s, e, t) ==
    {q \in (e + 1)..Len(s) :
        /\ ThenAt(s, q)
        /\ \E r \in (q + 3)..Len(s) : Tok(s, r) = ")" /\ AliasAt(s, r + 1, t)}

\* sum\s*\(\s*case\s+when\s+(\w+)\s*=.*?then\s+(\w+).*?\)\s+as\s+<target>\b :
\* positions of "sum" from which the whole pattern matches.
SumCaseAt(s, t) ==
    {i \in 1..Len(s) :
        /\ SumCaseHead(s, i) > 0
        /\ SumCaseThen(s, WhenEq(s, SumCaseHead(s, i)), t) # {}}

\* The two groups of the leftmost sum/case match: <<condition_col, amount_col>>.
SumCaseGroups(s, t) ==
    LET i == Min(SumCaseAt(s, t))
        w == SumCaseHead(s, i)
        q == Min(SumCaseThen(s, WhenEq(s, w), t))
    IN  <<s[w + 2], s[q + 2]>>

\* \b<target>\b anywhere.
MentionedAt(s, t) == {i \in 1..Len(s) : Lower(s[i]) = Lower(t)}

\* ------------------------------------------------------------------------
\* Column inference engine
\* ------------------------------------------------------------------------

\* The record logged by _infer_source_column when nothing matched.
NoSourceWarning(t) == [msg |-> "Could not infer source column", target_column |-> t]

\* "match = re.search(...); if match: return match.group(n)": the group is the
\* token at the given offset from the leftmost match position; otherwise the
\* next pattern is tried.
FirstMatch(s, positions, offset, otherwise) ==
    IF positions # {} THEN Some(s[Min(positions) + offset]) ELSE otherwise

\* Variant: the verbatim-mention fallback is tried before the alias patterns.
InferFallbackFirst(s, t) ==
    IF MentionedAt(s, t) # {} THEN Some(t)
    ELSE FirstMatch(s, DirectAliasAt(s, t), 0, None)

\* Variant: without the verbatim-mention fallback.
InferWithoutFallback(s, t) ==
    FirstMatch(s, DirectAliasAt(s, t), 0,
    FirstMatch(s, FunctionAliasAt(s, t), 2,
    FirstMatch(s, ArithmeticAt(s, t), 0,
    FirstMatch(s, CaseWhenAt(s, t), 4,
    IF SumCaseAt(s, t) # {} THEN Some(SumCaseGroups(s, t)[2]) ELSE None))))

\* Variant: pattern 2 returns the function name.
InferFunctionName(s, t) ==
    FirstMatch(s, DirectAliasAt(s, t), 0,
    FirstMatch(s, FunctionAliasAt(s, t), 0,
    FirstMatch(s, ArithmeticAt(s, t), 0,
    FirstMatch(s, CaseWhenAt(s, t), 4,
    IF SumCaseAt(s, t) # {} THEN Some(SumCaseGroups(s, t)[2])
    ELSE IF MentionedAt(s, t) # {} THEN Some(t)
    ELSE None))))

\* Patterns 1 to 5 and the fallback of _infer_source_column, in its order,
\* over the normalized SQL.
InferFromNormalized(s, t) ==
    FirstMatch(s, DirectAliasAt(s, t), 0,
    FirstMatch(s, FunctionAliasAt(s, t), 2,
    FirstMatch(s, ArithmeticAt(s, t), 0,
    FirstMatch(s, CaseWhenAt(s, t), 4,
    IF SumCaseAt(s, t) # {} THEN Some(SumCaseGroups(s, t)[2])
    ELSE IF MentionedAt(s, t) # {} THEN Some(t)
    ELSE None))))

\* Variant: the result of the previous call is kept and returned when the
\* SQL is empty.
InferSourceColumnStale(t, code) ==
    IF code = <<>> THEN source_column ELSE InferFromNormalized(Normalize(code), t)

\* _infer_source_column: Some(column) or None.
_infer_source_column(t, code) ==
    IF code = <<>> THEN None ELSE InferFromNormalized(Normalize(code), t)

\* The warnings logged by a call of _infer_source_column that returned result:
\* one when the SQL is not empty and no pattern matched, none on the early
\* return for empty SQL.
InferSourceColumnLog(t, code, result) ==
    IF code # <<>> /\ result = None THEN <<NoSourceWarning(t)>> ELSE <<>>

\* (sum|count|avg|min|max)\s*\(.*?\)\s+as\s+<target>\b
AggregationProbe(s, t) ==
    \E i \in 1..Len(s) :
        /\ \E f \in {"sum", "count", "avg", "min", "max"} : EndsWith(s[i], f)
        /\ LET j == SkipWs(s, i + 1)
           IN  /\ Tok(s, j) = "("
               /\ \E r \in (j + 1)..Len(s) : s[r] = ")" /\ AliasAt(s, r + 1, t)

\* case\s+when.*?as\s+<target>\b
ConditionalProbe(s, t) ==
    \E i \in 1..Len(s) :
        /\ EndsWith(s[i], "case")
        /\ IsWs(Tok(s, i + 1))
        /\ StartsWith(Tok(s, i + 2), "when")
        /\ \E r \in (i + 3)..Len(s) : LooseAliasAt(s, r, t)

\* Variant: the CASE WHEN probe is tried before the aggregate probe.
ClassifyConditionalFirst(s, t) ==
    IF ConditionalProbe(s, t) THEN "CONDITIONAL"
    ELSE IF AggregationProbe(s, t) THEN "AGGREGATION"
    ELSE IF ArithmeticAt(s, t) # {} THEN "ARITHMETIC"
    ELSE IF FunctionAliasAt(s, t) # {} THEN "FUNCTION"
    ELSE "IDENTITY"

\* The probes of _determine_transformation_type, in its order, over the
\* normalized SQL.
ClassifyNormalized(s, t) ==
    IF AggregationProbe(s, t) THEN "AGGREGATION"
    ELSE IF ConditionalProbe(s, t) THEN "CONDITIONAL"
    ELSE IF ArithmeticAt(s, t) # {} THEN "ARITHMETIC"
    ELSE IF FunctionAliasAt(s, t) # {} THEN "FUNCTION"
    ELSE "IDENTITY"

\* _determine_transformation_type
_determine_transformation_type(t, code) ==
    IF code = <<>> THEN "IDENTITY" ELSE ClassifyNormalized(Normalize(code), t)

\* ------------------------------------------------------------------------
\* Lineage assembler
\* ------------------------------------------------------------------------

ROOT_NAMESPACE == "s3://lh-core-kolya-landing-zone"

PRODUCER == "dbt_redshift_openlineage_converter"

\* Variant: a placeholder node instead of the empty dict for an unknown id.
NodeInfoPlaceholder(m, node_id) ==
    Get(m.nodes, node_id, [database |-> "unknown", schema |-> "unknown", name |-> "unknown"])

\* self.manifest["nodes"].get(node_id, {})
NodeInfo(m, node_id) == Get(m.nodes, node_id, EmptyDict)

\* f"{info.get('database', '')}.{info.get('schema', '')}.{info.get('name', '')}"
QualifiedName(info) ==
    Get(info, "database", "") \o "." \o Get(info, "schema", "") \o "." \o Get(info, "name", "")

InputField(source_name, column) ==
    [namespace |-> ROOT_NAMESPACE, name |-> source_name, field |-> column]

\* Variant: the append without the membership test.
AppendInputFieldAlways(input_fields, input_field) == Append(input_fields, input_field)

\* "if input_field not in inputFields: inputFields.append(input_field)"
AppendInputField(input_fields, input_field) ==
    IF \E i \in 1..Len(input_fields) : input_fields[i] = input_field
    THEN input_fields
    ELSE Append(input_fields, input_field)

\* The record logged for a wildcard edge that inference cannot resolve.
WildcardWarning(t, source_name) ==
    [msg |-> "Could not infer source column for wildcard dependency",
     target_column |-> t, source_name |-> source_name]

\* not edge.get("targetColumn")
HasTargetColumn(edge) == Get(edge, "targetColumn", "") # ""

\* "if target_column not in column_lineage: column_lineage[target_column] = {...}"
WithEntry(lineage, t) ==
    IF t \in DOMAIN lineage THEN lineage
    ELSE Put(lineage, t, [inputFields |-> <<>>, transformationType |-> "IDENTITY"])

\* "if input_field not in ...: column_lineage[target_column]["inputFields"].append(...)"
AddInputField(lineage, t, input_field) ==
    Put(lineage, t, [lineage[t] EXCEPT !.inputFields = AppendInputField(@, input_field)])

\* Variant: an entry resolved from a wildcard edge takes the classifier's label.
WildcardEdgeClassified(acc, lineage, t, source_name, code, inferred) ==
    IF inferred # None
    THEN [lineage |-> Put(lineage, t,
                          [inputFields |->
                              AppendInputField(lineage[t].inputFields,
                                               InputField(source_name, inferred[1])),
                           transformationType |-> _determine_transformation_type(t, code)]),
          log |-> acc.log]
    ELSE [lineage |-> lineage,
          log |-> acc.log \o InferSourceColumnLog(t, code, inferred)
                          \o <<WildcardWarning(t, source_name)>>]

\* Variant: the wildcard is kept as the field instead of the inferred column.
WildcardEdgeKeepsStar(acc, lineage, t, source_name, code, inferred) ==
    IF inferred # None
    THEN [lineage |-> Put(lineage, t,
                          [lineage[t] EXCEPT !.inputFields =
                              IF \E i \in 1..Len(@) :
                                    @[i] = [namespace |-> ROOT_NAMESPACE, name |-> source_name, field |-> "*"]
                              THEN @
                              ELSE Append(@, [namespace |-> ROOT_NAMESPACE, name |-> source_name, field |-> "*"])]),
          log |-> acc.log]
    ELSE [lineage |-> lineage,
          log |-> acc.log \o <<[msg |-> "Could not infer source column for wildcard dependency",
                                target_column |-> t, source_name |-> source_name]>>]

\* A wildcard edge, given what _infer_source_column returned for it.
WildcardEdge(acc, lineage, t, source_name, code, inferred) ==
    IF inferred # None
    THEN [lineage |-> AddInputField(lineage, t, InputField(source_name, inferred[1])),
          log |-> acc.log]
    ELSE [lineage |-> lineage,
          log |-> acc.log \o InferSourceColumnLog(t, code, inferred)
                          \o <<WildcardWarning(t, source_name)>>]

\* An edge into the target that has a targetColumn.
ColumnEdge(acc, lineage, t, source_name, column, code) ==
    IF column = "*"
    THEN WildcardEdge(acc, lineage, t, source_name, code, _infer_source_column(t, code))
    ELSE [lineage |-> AddInputField(lineage, t, InputField(source_name, column)),
          log |-> acc.log]

\* One iteration of the loop over the edges: acc is [lineage, log].
ExplicitEdge(m, acc, edge, target, code) ==
    IF edge.target # target \/ ~HasTargetColumn(edge) THEN acc
    ELSE ColumnEdge(acc, WithEntry(acc.lineage, edge.targetColumn), edge.targetColumn,
                    QualifiedName(NodeInfo(m, edge.source)), edge.sourceColumn, code)

\* The loop over the edges, from edge i on.
RECURSIVE ExplicitEdges(_, _, _, _, _, _)
ExplicitEdges(m, acc, edges, i, target, code) ==
    IF i > Len(edges) THEN acc
    ELSE ExplicitEdges(m, ExplicitEdge(m, acc, edges[i], target, code), edges, i + 1, target, code)

\* Variant: the first dependency that declares a column keeps it.
SourceTablesOfDependencyFirst(m, column_to_table, columns, dep_node_id) ==
    LET dep_info == Get(m.nodes, dep_node_id, EmptyDict)
        dep_columns == Get(dep_info, "columns", <<>>)
        found == {columns[i] : i \in {j \in 1..Len(columns) :
                     \E k \in 1..Len(dep_columns) : dep_columns[k] = columns[j]}}
    IN  [c \in DOMAIN column_to_table \cup found |->
            IF c \in DOMAIN column_to_table THEN column_to_table[c]
            ELSE Get(dep_info, "database", "") \o "." \o Get(dep_info, "schema", "")
                    \o "." \o Get(dep_info, "name", "")]

\* One iteration of "for dep_node_id in depends_on": a later dependency that
\* declares the column overwrites the table found for it.
SourceTablesOfDependency(m, column_to_table, columns, dep_node_id) ==
    LET dep_info == NodeInfo(m, dep_node_id)
        dep_columns == Get(dep_info, "columns", <<>>)
        found == {columns[i] : i \in {j \in 1..Len(columns) :
                     \E k \in 1..Len(dep_columns) : dep_columns[k] = columns[j]}}
    IN  [c \in DOMAIN column_to_table \cup found |->
            IF c \in found THEN QualifiedName(dep_info) ELSE column_to_table[c]]

RECURSIVE SourceTablesLoop(_, _, _, _, _)
SourceTablesLoop(m, column_to_table, columns, depends_on, i) ==
    IF i > Len(depends_on) THEN column_to_table
    ELSE SourceTablesLoop(m, SourceTablesOfDependency(m, column_to_table, columns, depends_on[i]),
                          columns, depends_on, i + 1)

\* _find_source_tables_for_columns: dict from column to source table name.
_find_source_tables_for_columns(m, columns, target) ==
    SourceTablesLoop(m, EmptyDict, columns, Get(NodeInfo(m, target), "dependsOn", <<>>), 1)

\* "for col in cols: if source_tables.get(col): input_fields.append(...)"
RECURSIVE ResolvedFields(_, _, _)
ResolvedFields(source_tables, cols, i) ==
    IF i > Len(cols) THEN <<>>
    ELSE (IF cols[i] \in DOMAIN source_tables
          THEN <<InputField(source_tables[cols[i]], cols[i])>>
          ELSE <<>>) \o ResolvedFields(source_tables, cols, i + 1)

\* The fields of the columns cols, each attached to the dependency found for it.
FieldsOf(m, cols, target) ==
    ResolvedFields(_find_source_tables_for_columns(m, cols, target), cols, 1)

\* "Fallback to single column inference", given what _infer_source_column returned.
SingleColumnDependencies(m, t, code, target, inferred) ==
    [fields |-> FieldsOf(m, inferred, target),
     log |-> InferSourceColumnLog(t, code, inferred)]

\* Variant: when the SUM(CASE ...) identifiers resolve to nothing, the
\* single-column matchers are tried.
DependenciesFallingThrough(m, s, t, code, target) ==
    IF SumCaseAt(s, t) # {} /\ FieldsOf(m, SumCaseGroups(s, t), target) # <<>>
    THEN [fields |-> FieldsOf(m, SumCaseGroups(s, t), target), log |-> <<>>]
    ELSE SingleColumnDependencies(m, t, code, target, InferFromNormalized(s, t))

\* _infer_column_dependencies over the normalized SQL s:
\* [fields |-> the list it returns, log |-> the warnings logged on the way].
DependenciesFromNormalized(m, s, t, code, target) ==
    IF SumCaseAt(s, t) # {}
    THEN [fields |-> FieldsOf(m, SumCaseGroups(s, t), target), log |-> <<>>]
    ELSE SingleColumnDependencies(m, t, code, target, InferFromNormalized(s, t))

InferColumnDependencies(m, t, code, target) ==
    IF code = <<>> THEN [fields |-> <<>>, log |-> <<>>]
    ELSE DependenciesFromNormalized(m, Normalize(code), t, code, target)

\* _infer_column_dependencies: list of input fields.
_infer_column_dependencies(m, t, code, target) == InferColumnDependencies(m, t, code, target).fields

\* Variant: a Step 2 entry is labelled like a Step 1 entry.
WithInferredAsIdentity(m, acc, t, code, inferred) ==
    [lineage |-> IF inferred.fields # <<>>
                 THEN Put(acc.lineage, t,
                          [inputFields |-> inferred.fields, transformationType |-> "IDENTITY"])
                 ELSE acc.lineage,
     log |-> acc.log \o inferred.log]

\* "if inferred_sources: column_lineage[target_column] = {...}"
WithInferred(m, acc, t, code, inferred) ==
    [lineage |-> IF inferred.fields # <<>>
                 THEN Put(acc.lineage, t,
                          [inputFields |-> inferred.fields,
                           transformationType |-> _determine_transformation_type(t, code)])
                 ELSE acc.lineage,
     log |-> acc.log \o inferred.log]

\* Variant: Step 2 infers every declared column, with or without an entry.
InferredColumnAlways(m, acc, t, target, code) ==
    WithInferred(m, acc, t, code, InferColumnDependencies(m, t, code, target))

\* One iteration of the loop over the declared columns of the target.
InferredColumn(m, acc, t, target, code) ==
    IF t \in DOMAIN acc.lineage THEN acc
    ELSE WithInferred(m, acc, t, code, InferColumnDependencies(m, t, code, target))

RECURSIVE InferredColumnsLoop(_, _, _, _, _, _)
InferredColumnsLoop(m, acc, target_columns, i, target, code) ==
    IF i > Len(target_columns) THEN acc
    ELSE InferredColumnsLoop(m, InferredColumn(m, acc, target_columns[i], target, code),
                             target_columns, i + 1, target, code)

\* Variant: the map is kept between calls instead of starting empty.
BuildColumnLineageAccumulating(m, target) ==
    LET target_info == NodeInfo(m, target)
        code == Get(target_info, "compiledCode", <<>>)
        step1 == ExplicitEdges(m, [lineage |-> column_lineage, log |-> <<>>],
                               Get(Get(m, "lineage", EmptyDict), "edges", <<>>), 1, target, code)
    IN  InferredColumnsLoop(m, step1, Get(target_info, "columns", <<>>), 1, target, code)

\* build_column_lineage: [lineage |-> the returned dict, log |-> the warnings logged].
build_column_lineage(m, target) ==
    LET target_info == NodeInfo(m, target)
        code == Get(target_info, "compiledCode", <<>>)
        step1 == ExplicitEdges(m, [lineage |-> EmptyDict, log |-> <<>>],
                               Get(Get(m, "lineage", EmptyDict), "edges", <<>>), 1, target, code)
    IN  InferredColumnsLoop(m, step1, Get(target_info, "columns", <<>>), 1, target, code)

\* ------------------------------------------------------------------------
\* Event builder
\* ------------------------------------------------------------------------

SchemaFacet(fields) ==
    [_producer |-> PRODUCER,
     _schemaURL |-> "https://openlineage.io/spec/facets/1-0-0/SchemaDatasetFacet.json",
     fields |-> fields]

ColumnLineageFacet(schema_url, fields) ==
    [_producer |-> PRODUCER, _schemaURL |-> schema_url, fields |-> fields]

\* "for col_name, col_info in node_info.get('columns', {}).items()"; the
\* manifests here carry no dataType or description, so the defaults apply.
SchemaFields(node_info) ==
    LET cols == Get(node_info, "columns", <<>>)
    IN  [i \in 1..Len(cols) |-> [name |-> cols[i], type |-> "string", description |-> ""]]

\* Variant: only edges that name a targetColumn count toward the inputs.
RECURSIVE EdgeInputsColumnOnly(_, _, _, _)
EdgeInputsColumnOnly(m, edges, i, node_id) ==
    IF i > Len(edges) THEN <<>>
    ELSE (IF /\ edges[i].target = node_id
             /\ "targetColumn" \in DOMAIN edges[i]
             /\ Get(m.nodes, edges[i].source, EmptyDict) # EmptyDict
          THEN <<[namespace |-> ROOT_NAMESPACE,
                  name |-> QualifiedName(Get(m.nodes, edges[i].source, EmptyDict)),
                  facets |-> [schema |-> SchemaFacet(<<>>)]]>>
          ELSE <<>>) \o EdgeInputsColumnOnly(m, edges, i + 1, node_id)

\* "Build inputs from lineage edges": one dataset per edge into node_id whose
\* source node is in the manifest ("if source_info").
RECURSIVE EdgeInputs(_, _, _, _)
EdgeInputs(m, edges, i, node_id) ==
    IF i > Len(edges) THEN <<>>
    ELSE (IF edges[i].target = node_id /\ NodeInfo(m, edges[i].source) # EmptyDict
          THEN <<[namespace |-> ROOT_NAMESPACE,
                  name |-> QualifiedName(NodeInfo(m, edges[i].source)),
                  facets |-> [schema |-> SchemaFacet(<<>>)]]>>
          ELSE <<>>) \o EdgeInputs(m, edges, i + 1, node_id)

\* "Remove duplicates": keep the first input of every name.
RECURSIVE UniqueInputs(_, _)
UniqueInputs(inputs, i) ==
    IF i > Len(inputs) THEN <<>>
    ELSE (IF \E j \in 1..(i - 1) : inputs[j].name = inputs[i].name
          THEN <<>>
          ELSE <<inputs[i]>>) \o UniqueInputs(inputs, i + 1)

\* "if column_lineage:" a dict is true when it has a key.
HasColumnLineage(lineage) == DOMAIN lineage # {}

\* Variant: the facet is attached whether or not the map has a key.
JobFacetsAlways(lineage) ==
    Put(EmptyDict, "columnLineage",
        [_producer |-> PRODUCER,
         _schemaURL |-> "https://openlineage.io/spec/facets/1-0-0/ColumnLineageJobFacet.json",
         fields |-> lineage])

\* event["job"]["facets"]
JobFacets(lineage) ==
    IF HasColumnLineage(lineage)
    THEN Put(EmptyDict, "columnLineage",
             ColumnLineageFacet("https://openlineage.io/spec/facets/1-0-0/ColumnLineageJobFacet.json",
                                lineage))
    ELSE EmptyDict

\* event["outputs"][0]["facets"]
OutputFacets(node_info, lineage) ==
    IF HasColumnLineage(lineage)
    THEN Put([schema |-> SchemaFacet(SchemaFields(node_info))], "columnLineage",
             ColumnLineageFacet("https://openlineage.io/spec/facets/1-0-0/ColumnLineageDatasetFacet.json",
                                lineage))
    ELSE [schema |-> SchemaFacet(SchemaFields(node_info))]

\* create_openlineage_event, given the run id and the clock reading it draws:
\* [event |-> None for a source node, else Some(event),
\*  lineage, log |-> what the build_column_lineage call inside it returned and logged].
create_openlineage_event(m, node_id, node_info, run_id, now) ==
    IF Get(node_info, "nodeType", "") = "source"
    THEN [event |-> None, lineage |-> EmptyDict, log |-> <<>>]
    ELSE LET built == build_column_lineage(m, node_id)
         IN  [event |->
                Some([eventType |-> "COMPLETE",
                      eventTime |-> now,
                      run |-> [runId |-> run_id],
                      job |-> [namespace |-> ROOT_NAMESPACE,
                               name |-> "dbt_run_" \o Get(node_info, "name", "unknown"),
                               facets |-> JobFacets(built.lineage)],
                      inputs |-> UniqueInputs(
                                    EdgeInputs(m, Get(Get(m, "lineage", EmptyDict), "edges", <<>>),
                                               1, node_id), 1),
                      outputs |-> <<[namespace |-> ROOT_NAMESPACE,
                                     name |-> QualifiedName(node_info),
                                     facets |-> OutputFacets(node_info, built.lineage)]>>,
                      producer |-> PRODUCER]),
              lineage |-> built.lineage,
              log |-> built.log]

\* ------------------------------------------------------------------------
\* SQL statements the engine is run on
\* ------------------------------------------------------------------------

\* Number of projections in a SELECT list.
MaxProjections == 2

Aliased(e, a) == e \o <<" ", "as", " ", a>>

FunctionCall(f, x) == <<f, "(", x, ")">>

CaseWhen(c, v) ==
    <<"case", " ", "when", " ", c, " ", "=", " ", "1", " ",
      "then", " ", v, " ", "else", " ", "0", " ", "end">>

SumCase(c, v) == <<"sum", "(">> \o CaseWhen(c, v) \o <<")">>

\* Projection expressions, with and without alias.
Projections ==
    { Aliased(<<"x">>, "t"),
      Aliased(<<"y">>, "t"),
      Aliased(<<"t">>, "t"),
      <<"X", " ", "AS", " ", "T">>,
      Aliased(FunctionCall("upper", "x"), "t"),
      Aliased(FunctionCall("sum", "x"), "t"),
      Aliased(<<"x", " ", "/", " ", "100">>, "t"),
      Aliased(CaseWhen("x", "y"), "t"),
      Aliased(<<"(">> \o CaseWhen("x", "y") \o <<")">>, "t"),
      Aliased(SumCase("x", "y"), "t"),
      Aliased(SumCase("x", "y"), "u"),
      Aliased(<<"y">>, "u"),
      Aliased(<<"count", "(", "*", ")">>, "u"),
      <<"t">>,
      <<"y">> }

RECURSIVE SelectList(_)
SelectList(ps) ==
    IF Len(ps) = 1 THEN ps[1]
    ELSE ps[1] \o <<",", " ">> \o SelectList(Tail(ps))

Select(ps) == <<"select", " ">> \o SelectList(ps) \o <<" ", "from", " ", "r">>

SelectStatements ==
    {Select(ps) : ps \in UNION {[1..n -> Projections] : n \in 1..MaxProjections}}

\* compiledCode values: absent or empty, blank, and SELECT statements.
EngineSql == {<<>>, <<" ">>} \cup SelectStatements

TargetColumns == {"t", "u"}

\* ------------------------------------------------------------------------
\* The engine called directly
\* ------------------------------------------------------------------------

\* No sync_model call has started.
NoSync ==
    [pc |-> "idle", model_name |-> None, pending |-> <<>>, node |-> "",
     requests |-> <<>>, success_count |-> 0, total_count |-> 0]

Idle ==
    /\ sync = NoSync
    /\ calls = <<>>
    /\ manifest = EmptyDict
    /\ target_node_id = ""
    /\ column_lineage = EmptyDict
    /\ event = None

InitEngine ==
    /\ Idle
    /\ returned = {}
    /\ warnings = <<>>
    /\ target_column \in TargetColumns
    /\ compiled_code \in EngineSql
    /\ source_column = None
    /\ transformation = None

InferSourceColumn ==
    /\ "_infer_source_column" \notin returned
    /\ source_column' = _infer_source_column(target_column, compiled_code)
    /\ warnings' = warnings \o InferSourceColumnLog(target_column, compiled_code,
                                    _infer_source_column(target_column, compiled_code))
    /\ returned' = returned \cup {"_infer_source_column"}
    /\ UNCHANGED <<manifest, target_node_id, column_lineage, event,
                   target_column, compiled_code, transformation, sync, calls>>

DetermineTransformationType ==
    /\ "_determine_transformation_type" \notin returned
    /\ transformation' = Some(_determine_transformation_type(target_column, compiled_code))
    /\ returned' = returned \cup {"_determine_transformation_type"}
    /\ UNCHANGED <<manifest, target_node_id, column_lineage, event, warnings,
                   target_column, compiled_code, source_column, sync, calls>>

NextEngine == InferSourceColumn \/ DetermineTransformationType

SpecEngine == InitEngine /\ [][NextEngine]_vars

\* ------------------------------------------------------------------------
\* Manifests
\* ------------------------------------------------------------------------

\* Number of edges in lineage.edges.
MaxEdges == 2

\* A source table and an upstream model; both declare column x.
NodeA ==
    [database |-> "db", schema |-> "raw", name |-> "a", nodeType |-> "source",
     columns |-> <<"x", "y">>]

NodeB ==
    [database |-> "db", schema |-> "stg", name |-> "b", nodeType |-> "model",
     columns |-> <<"x", "t">>]

\* The target model, with and without the optional keys.
NodeT(depends_on, code) ==
    [database |-> "db", schema |-> "mart", name |-> "t_model", nodeType |-> "model",
     columns |-> <<"t", "u">>, dependsOn |-> depends_on, compiledCode |-> code]

BareNodeT ==
    [database |-> "db", schema |-> "mart", name |-> "t_model", nodeType |-> "model",
     columns |-> <<"t", "u">>]

\* dependsOn lists; "Z" is an id that no manifest has a node for.
DependsOnLists == {<<>>, <<"A", "B">>, <<"B", "A">>, <<"Z", "A">>}

\* Projections of column t and of column u in the target's compiledCode.
ProjectionsOfT ==
    { Aliased(<<"x">>, "t"),
      Aliased(FunctionCall("upper", "x"), "t"),
      <<"t">>,
      <<"y">> }

ProjectionsOfU ==
    { Aliased(<<"y">>, "u"),
      Aliased(FunctionCall("sum", "y"), "u"),
      Aliased(SumCase("x", "y"), "u"),
      Aliased(SumCase("x", "x"), "u"),
      Aliased(SumCase("x", "z"), "u"),
      Aliased(<<"z">>, "u") }

\* compiledCode of the target: empty, SELECTs of t and u, a SELECT of two
\* SUM(CASE ...) columns, a SELECT with the SUM(CASE ...) first, and a UNION
\* ALL of two SELECTs that alias different columns to t, and a UNION ALL
\* whose second SELECT is a SUM(CASE ...) over columns that nothing declares.
AssemblerSql ==
    {<<>>}
    \cup {Select(<<Aliased(SumCase("y", "x"), "t"), Aliased(SumCase("x", "y"), "u")>>),
          Select(<<Aliased(SumCase("x", "y"), "u"), Aliased(<<"x">>, "t")>>)}
    \cup {Select(<<p, Aliased(<<"y">>, "u")>>) : p \in ProjectionsOfT}
    \cup {Select(<<Aliased(<<"x">>, "t"), q>>) : q \in ProjectionsOfU}
    \cup {Select(<<Aliased(<<"y">>, "t")>>) \o <<" ", "union", " ", "all", " ">>
             \o Select(<<Aliased(<<"x">>, "t")>>)}
    \cup {Select(<<Aliased(<<"x">>, "u")>>) \o <<" ", "union", " ", "all", " ">>
             \o Select(<<Aliased(SumCase("z", "z"), "u")>>)}

Edge(source, column, target, target_col) ==
    [source |-> source, sourceColumn |-> column, target |-> target, targetColumn |-> target_col]

\* Edge without targetColumn: table-level lineage.
TableEdge(source, column, target) ==
    [source |-> source, sourceColumn |-> column, target |-> target]

Edges ==
    { Edge("A", "x", "T", "t"),
      Edge("B", "x", "T", "t"),
      Edge("A", "*", "T", "t"),
      Edge("Z", "x", "T", "t"),
      TableEdge("A", "y", "T"),
      Edge("A", "x", "B", "t") }

EdgeLists == UNION {[1..n -> Edges] : n \in 0..MaxEdges}

NodeMaps ==
    {[A |-> NodeA, B |-> NodeB]}
    \cup {[A |-> NodeA, B |-> NodeB, T |-> BareNodeT]}
    \cup {[A |-> NodeA, B |-> NodeB, T |-> NodeT(d, c)] : d \in DependsOnLists, c \in AssemblerSql}

Manifests == {[nodes |-> n, lineage |-> [edges |-> e]] : n \in NodeMaps, e \in EdgeLists}

\* uuid.uuid4() and datetime.now(): opaque values.
RunIds == {"run-1"}

EventTimes == {"2025-01-01T00:00:00Z"}

\* ------------------------------------------------------------------------
\* The sync object: a manifest is loaded, then one method is called on it
\* ------------------------------------------------------------------------

EngineIdle ==
    /\ target_column = ""
    /\ compiled_code = <<>>
    /\ source_column = None
    /\ transformation = None

\* MarquezSync.__init__
Init ==
    /\ Idle
    /\ EngineIdle
    /\ returned = {}
    /\ warnings = <<>>

\* load_manifest: json.load of a manifest file
LoadManifest ==
    /\ returned = {}
    /\ manifest' \in Manifests
    /\ returned' = {"load_manifest"}
    /\ UNCHANGED <<target_node_id, column_lineage, warnings, event,
                   target_column, compiled_code, source_column, transformation, sync, calls>>

\* build_column_lineage("T"): T may or may not be a node of the manifest
BuildColumnLineage ==
    /\ returned = {"load_manifest"}
    /\ LET r == build_column_lineage(manifest, "T")
       IN  /\ column_lineage' = r.lineage
           /\ warnings' = r.log
    /\ target_node_id' = "T"
    /\ returned' = returned \cup {"build_column_lineage"}
    /\ UNCHANGED <<manifest, event, target_column, compiled_code, source_column, transformation, sync, calls>>

\* create_openlineage_event(node_id, node_info) for an item of manifest["nodes"]
CreateOpenLineageEvent ==
    /\ returned = {"load_manifest"}
    /\ \E node_id \in DOMAIN manifest.nodes, run_id \in RunIds, now \in EventTimes :
        LET r == create_openlineage_event(manifest, node_id, manifest.nodes[node_id], run_id, now)
        IN  /\ event' = r.event
            /\ column_lineage' = r.lineage
            /\ warnings' = r.log
            /\ target_node_id' = node_id
    /\ returned' = returned \cup {"create_openlineage_event"}
    /\ UNCHANGED <<manifest, target_column, compiled_code, source_column, transformation, sync, calls>>

Next == LoadManifest \/ BuildColumnLineage \/ CreateOpenLineageEvent

Spec == Init /\ [][Next]_vars

\* ------------------------------------------------------------------------
\* sync_model: one pass over the nodes, one send_event per model node
\* ------------------------------------------------------------------------

\* config["openlineage"]["source_name"]
SOURCE_NAME == "dbt-redshift"

\* What a session.put / session.post can do: answer 2xx, answer an error
\* status (raise_for_status raises), or raise a RequestException itself.
Outcomes == {"ok", "failed", "raised"}

\* The manifests of the sync passes: the target depends on A and B, with at
\* most one edge.
SyncManifests ==
    {m \in Manifests :
        /\ m.lineage.edges \in {<<>>, <<Edge("A", "x", "T", "t")>>, <<Edge("A", "*", "T", "t")>>,
                                 <<Edge("A", "x", "B", "t")>>}
        /\ "T" \in DOMAIN m.nodes =>
              /\ Get(m.nodes["T"], "dependsOn", <<"A", "B">>) = <<"A", "B">>
              /\ Get(m.nodes["T"], "compiledCode", <<>>) \in
                    {<<>>, Select(<<Aliased(<<"x">>, "t"), Aliased(<<"y">>, "u")>>)}}

\* model_name arguments: None, the empty string, names of nodes, an unknown name.
ModelNames == {None, Some(""), Some("b"), Some("t_model"), Some("a"), Some("no_such_model")}

\* The orders in which nodes.items() can list the nodes of a manifest file.
ItemOrders(nodes) ==
    {order \in [1..Cardinality(DOMAIN nodes) -> DOMAIN nodes] :
        \A i, j \in 1..Cardinality(DOMAIN nodes) : i # j => order[i] # order[j]}

\* "if node_info.get('nodeType') != 'model': continue" and
\* "if model_name and node_info.get('name') != model_name: continue"
Selected(node_info, model_name) ==
    /\ Get(node_info, "nodeType", "") = "model"
    /\ (model_name = None \/ model_name = Some("") \/ Some(Get(node_info, "name", "")) = model_name)

Request(method, resource, node_id, outcome) ==
    [method |-> method, resource |-> resource, node |-> node_id, outcome |-> outcome]

PreCreationWarning == [msg |-> "Dataset pre-creation warning", target_column |-> ""]

\* sync_model up to its loop: load the manifest if none is loaded, read the
\* nodes, zero the counters.
SyncStart ==
    /\ sync.pc = "idle"
    /\ \E model_name \in ModelNames :
        \E m \in (IF manifest = EmptyDict THEN SyncManifests ELSE {manifest}) :
            \E order \in ItemOrders(m.nodes) :
                /\ manifest' = m
                /\ sync' = [NoSync EXCEPT !.pc = "loop", !.model_name = model_name, !.pending = order]
    /\ returned' = returned \cup {"load_manifest"}
    /\ UNCHANGED <<target_node_id, column_lineage, warnings, event,
                   target_column, compiled_code, source_column, transformation, calls>>

\* One iteration of "for node_id, node_info in nodes.items()" up to the first
\* request of send_event: the two filters, the count, create_openlineage_event.
SyncNode ==
    /\ sync.pc = "loop"
    /\ sync.pending # <<>>
    /\ LET node_id == Head(sync.pending)
           node_info == manifest.nodes[node_id]
       IN  IF ~Selected(node_info, sync.model_name)
           THEN /\ sync' = [sync EXCEPT !.pending = Tail(@)]
                /\ UNCHANGED <<target_node_id, column_lineage, warnings, event>>
           ELSE \E run_id \in RunIds, now \in EventTimes :
                LET r == create_openlineage_event(manifest, node_id, node_info, run_id, now)
                IN  /\ event' = r.event
                    /\ column_lineage' = r.lineage
                    /\ warnings' = warnings \o r.log
                    /\ target_node_id' = node_id
                    /\ sync' = IF r.event # None
                               THEN [sync EXCEPT !.total_count = @ + 1, !.node = node_id,
                                                 !.pc = "put_source"]
                               ELSE [sync EXCEPT !.total_count = @ + 1, !.pending = Tail(@)]
    /\ UNCHANGED <<manifest, returned, target_column, compiled_code, source_column, transformation, calls>>

\* Variant: a source PUT that fails ends send_event without the lineage POST.
PutSourceAbortsOnFailure ==
    /\ sync.pc = "put_source"
    /\ \E outcome \in Outcomes :
        /\ sync' = [sync EXCEPT !.requests = Append(@, Request("PUT", "source", sync.node, outcome)),
                                !.pending = IF outcome = "ok" THEN @ ELSE Tail(@),
                                !.pc = IF outcome = "ok" THEN "put_dataset" ELSE "loop"]
        /\ warnings' = IF outcome = "ok" THEN warnings ELSE Append(warnings, PreCreationWarning)
    /\ UNCHANGED <<manifest, returned, target_node_id, column_lineage, event,
                   target_column, compiled_code, source_column, transformation, calls>>

\* send_event, pre-creation: create_dataset_with_details calls create_source
\* (session.put). A failure makes create_source return False, then
\* create_dataset_with_details raises ValueError, which send_event catches and
\* logs.
PutSource ==
    /\ sync.pc = "put_source"
    /\ \E outcome \in Outcomes :
        /\ sync' = [sync EXCEPT !.requests = Append(@, Request("PUT", "source", sync.node, outcome)),
                                !.pc = IF outcome = "ok" THEN "put_dataset" ELSE "post"]
        /\ warnings' = IF outcome = "ok" THEN warnings ELSE Append(warnings, PreCreationWarning)
    /\ UNCHANGED <<manifest, returned, target_node_id, column_lineage, event,
                   target_column, compiled_code, source_column, transformation, calls>>

\* send_event, pre-creation: the session.put of the dataset. A failure is
\* raised again by create_dataset_with_details, caught and logged by send_event.
PutDataset ==
    /\ sync.pc = "put_dataset"
    /\ \E outcome \in Outcomes :
        /\ sync' = [sync EXCEPT !.requests = Append(@, Request("PUT", "dataset", sync.node, outcome)),
                                !.pc = "post"]
        /\ warnings' = IF outcome = "ok" THEN warnings ELSE Append(warnings, PreCreationWarning)
    /\ UNCHANGED <<manifest, returned, target_node_id, column_lineage, event,
                   target_column, compiled_code, source_column, transformation, calls>>

\* Variant: a failed POST ends the pass.
PostLineageStopsOnFailure ==
    /\ sync.pc = "post"
    /\ \E outcome \in Outcomes :
        sync' = [sync EXCEPT !.requests = Append(@, Request("POST", "lineage", sync.node, outcome)),
                             !.success_count = IF outcome = "ok" THEN @ + 1 ELSE @,
                             !.pending = IF outcome = "ok" THEN Tail(@) ELSE <<>>,
                             !.pc = "loop"]
    /\ UNCHANGED <<manifest, returned, target_node_id, column_lineage, warnings, event,
                   target_column, compiled_code, source_column, transformation, calls>>

\* send_event, "Send event": the session.post to /api/v1/lineage; True on 2xx,
\* False on a RequestException. Back in sync_model, True counts a success and
\* the loop goes on to the next node either way.
PostLineage ==
    /\ sync.pc = "post"
    /\ \E outcome \in Outcomes :
        sync' = [sync EXCEPT !.requests = Append(@, Request("POST", "lineage", sync.node, outcome)),
                             !.success_count = IF outcome = "ok" THEN @ + 1 ELSE @,
                             !.pending = Tail(@),
                             !.pc = "loop"]
    /\ UNCHANGED <<manifest, returned, target_node_id, column_lineage, warnings, event,
                   target_column, compiled_code, source_column, transformation, calls>>

\* The loop is over: "Sync completed" is logged and sync_model returns.
SyncDone ==
    /\ sync.pc = "loop"
    /\ sync.pending = <<>>
    /\ sync' = [sync EXCEPT !.pc = "done"]
    /\ returned' = returned \cup {"sync_model"}
    /\ UNCHANGED <<manifest, target_node_id, column_lineage, warnings, event,
                   target_column, compiled_code, source_column, transformation, calls>>

NextSync == SyncStart \/ SyncNode \/ PutSource \/ PutDataset \/ PostLineage \/ SyncDone

SpecSync == Init /\ [][NextSync]_vars

\* ------------------------------------------------------------------------
\* Calls in any order on one loaded manifest
\* ------------------------------------------------------------------------

\* Number of build_column_lineage / create_openlineage_event calls made on
\* one object.
MaxCalls == 3

\* load_manifest of one of the manifests of the sync passes
LoadSyncManifest ==
    /\ returned = {}
    /\ manifest' \in SyncManifests
    /\ returned' = {"load_manifest"}
    /\ UNCHANGED <<target_node_id, column_lineage, warnings, event,
                   target_column, compiled_code, source_column, transformation, sync, calls>>

\* build_column_lineage(node_id) for a node of the manifest or the unknown id
\* "Z", after any earlier calls
CallBuildColumnLineage ==
    /\ manifest # EmptyDict
    /\ Len(calls) < MaxCalls
    /\ \E node_id \in DOMAIN manifest.nodes \cup {"Z"} :
        LET r == build_column_lineage(manifest, node_id)
        IN  /\ column_lineage' = r.lineage
            /\ warnings' = warnings \o r.log
            /\ target_node_id' = node_id
            /\ calls' = Append(calls, [method |-> "build_column_lineage", node |-> node_id,
                                       lineage |-> Some(r.lineage)])
    /\ returned' = returned \cup {"build_column_lineage"}
    /\ UNCHANGED <<manifest, event, target_column, compiled_code, source_column, transformation, sync>>

\* create_openlineage_event(node_id, node_info) for a node of the manifest,
\* after any earlier calls
CallCreateOpenLineageEvent ==
    /\ manifest # EmptyDict
    /\ Len(calls) < MaxCalls
    /\ \E node_id \in DOMAIN manifest.nodes, run_id \in RunIds, now \in EventTimes :
        LET r == create_openlineage_event(manifest, node_id, manifest.nodes[node_id], run_id, now)
        IN  /\ event' = r.event
            /\ column_lineage' = IF r.event = None THEN column_lineage ELSE r.lineage
            /\ warnings' = warnings \o r.log
            /\ target_node_id' = node_id
            /\ calls' = Append(calls, [method |-> "create_openlineage_event", node |-> node_id,
                                       lineage |-> IF r.event = None THEN None ELSE Some(r.lineage)])
    /\ returned' = returned \cup {"create_openlineage_event"}
    /\ UNCHANGED <<manifest, target_column, compiled_code, source_column, transformation, sync>>

NextCalls == LoadSyncManifest \/ CallBuildColumnLineage \/ CallCreateOpenLineageEvent

SpecCalls == Init /\ [][NextCalls]_vars

\* ------------------------------------------------------------------------
\* The engine called repeatedly, with the SQL of one node or another
\* ------------------------------------------------------------------------

\* compiledCode of the nodes the engine is called for: none, a direct alias,
\* an aggregate.
RepeatedSql ==
    {<<>>, Select(<<Aliased(<<"x">>, "t")>>), Select(<<Aliased(FunctionCall("sum", "y"), "t")>>)}

\* _infer_source_column(t, code), after any earlier calls
CallInferSourceColumn ==
    /\ Len(calls) < MaxCalls
    /\ \E t \in TargetColumns, code \in RepeatedSql :
        /\ target_column' = t
        /\ compiled_code' = code
        /\ source_column' = _infer_source_column(t, code)
        /\ warnings' = warnings \o InferSourceColumnLog(t, code, _infer_source_column(t, code))
        /\ calls' = Append(calls, [method |-> "_infer_source_column", args |-> <<t, code>>,
                                   result |-> _infer_source_column(t, code)])
    /\ returned' = returned \cup {"_infer_source_column"}
    /\ UNCHANGED <<manifest, target_node_id, column_lineage, event, transformation, sync>>

\* _determine_transformation_type(t, code), after any earlier calls
CallDetermineTransformationType ==
    /\ Len(calls) < MaxCalls
    /\ \E t \in TargetColumns, code \in RepeatedSql :
        /\ target_column' = t
        /\ compiled_code' = code
        /\ transformation' = Some(_determine_transformation_type(t, code))
        /\ calls' = Append(calls, [method |-> "_determine_transformation_type", args |-> <<t, code>>,
                                   result |-> Some(_determine_transformation_type(t, code))])
    /\ returned' = returned \cup {"_determine_transformation_type"}
    /\ UNCHANGED <<manifest, target_node_id, column_lineage, event, warnings, source_column, sync>>

NextEngineCalls == CallInferSourceColumn \/ CallDetermineTransformationType

SpecEngineCalls == Init /\ [][NextEngineCalls]_vars

\* ------------------------------------------------------------------------
\* What the claims speak about
\* ------------------------------------------------------------------------

\* column_lineage holds what build_column_lineage(target_node_id) returned.
Built ==
    \/ "build_column_lineage" \in returned
    \/ "create_openlineage_event" \in returned /\ event # None

\* _infer_source_column has returned source_column.
Inferred == "_infer_source_column" \in returned

TargetInfo == NodeInfo(manifest, target_node_id)

TargetCode == Get(TargetInfo, "compiledCode", <<>>)

TargetSql == Normalize(TargetCode)

DeclaredColumns == {Get(TargetInfo, "columns", <<>>)[i] : i \in 1..Len(Get(TargetInfo, "columns", <<>>))}

DependsOn == Get(TargetInfo, "dependsOn", <<>>)

ManifestEdges == manifest.lineage.edges

\* Indices of the edges into column c of the target.
ColumnEdges(c) ==
    {i \in 1..Len(ManifestEdges) :
        /\ ManifestEdges[i].target = target_node_id
        /\ HasTargetColumn(ManifestEdges[i])
        /\ ManifestEdges[i].targetColumn = c}

WildcardEdges(c) == {i \in ColumnEdges(c) : ManifestEdges[i].sourceColumn = "*"}

\* Columns named as targetColumn by an edge into the target.
EdgeColumns ==
    {ManifestEdges[i].targetColumn : i \in {j \in 1..Len(ManifestEdges) :
        ManifestEdges[j].target = target_node_id /\ HasTargetColumn(ManifestEdges[j])}}

SourceName(i) == QualifiedName(Get(manifest.nodes, ManifestEdges[i].source, EmptyDict))

FieldsOfEntry(c) == {column_lineage[c].inputFields[k] : k \in 1..Len(column_lineage[c].inputFields)}

\* Positions in dependsOn of the dependencies that declare column col.
Declarers(col) ==
    {i \in 1..Len(DependsOn) :
        LET cols == Get(Get(manifest.nodes, DependsOn[i], EmptyDict), "columns", <<>>)
        IN  \E k \in 1..Len(cols) : cols[k] = col}

DependencyName(i) == QualifiedName(Get(manifest.nodes, DependsOn[i], EmptyDict))

Max(S) == CHOOSE i \in S : \A j \in S : i >= j

\* C1: the map returned by build_column_lineage has no key whose inputFields
\* list is empty.
C1_NoEmptyEntries ==
    Built => \A c \in DOMAIN column_lineage : column_lineage[c].inputFields # <<>>

C3_NoDuplicateInputFields ==
    Built =>
        \A c \in DOMAIN column_lineage :
            \A i, j \in 1..Len(column_lineage[c].inputFields) :
                i # j => column_lineage[c].inputFields[i] # column_lineage[c].inputFields[j]

\* The manifest with every edge of lineage.edges listed twice in a row.
DoubledEdges ==
    [manifest EXCEPT !.lineage.edges =
        [i \in 1..(2 * Len(ManifestEdges)) |-> ManifestEdges[(i + 1) \div 2]]]

\* How often the triple f occurs in the entry of column c.
Occurrences(c, f) ==
    Cardinality({k \in 1..Len(column_lineage[c].inputFields) :
                    column_lineage[c].inputFields[k] = f})

\* C4: Step 1 accumulation is idempotent and keyed on the full triple:
\* listing every edge twice leaves the returned map as it is, an edge that
\* occurs twice contributes its input field once, and two edges with the same
\* sourceColumn from different source datasets contribute two input fields.
C4_IdempotentAccumulation ==
    Built =>
        /\ build_column_lineage(DoubledEdges, target_node_id).lineage = column_lineage
        /\ \A c \in EdgeColumns :
            \A i, j \in ColumnEdges(c) \ WildcardEdges(c) :
                LET fi == InputField(SourceName(i), ManifestEdges[i].sourceColumn)
                    fj == InputField(SourceName(j), ManifestEdges[j].sourceColumn)
                IN  /\ Occurrences(c, fi) = 1
                    /\ (/\ ManifestEdges[i].sourceColumn = ManifestEdges[j].sourceColumn
                        /\ SourceName(i) # SourceName(j))
                       => fi # fj /\ Occurrences(c, fj) = 1

\* C4 witness: the same edge listed twice, and its column holding one input field.
C4_Witness ==
    /\ Built
    /\ \E c \in EdgeColumns :
        /\ \E i, j \in ColumnEdges(c) : i # j /\ ManifestEdges[i] = ManifestEdges[j]
        /\ Len(column_lineage[c].inputFields) = 1

\* Number of warnings logged that name column c.
WarningsFor(c) == Cardinality({k \in 1..Len(warnings) : warnings[k].target_column = c})

\* Number of unresolved cases of column c: wildcard edges into c that
\* inference cannot resolve, and c itself when it is declared, has no explicit
\* edge and gets no entry.
UnresolvedCases(c) ==
    Cardinality({i \in WildcardEdges(c) : _infer_source_column(c, TargetCode) = None})
    + (IF c \in DeclaredColumns \ EdgeColumns /\ c \notin DOMAIN column_lineage THEN 1 ELSE 0)

\* C5: exactly one warning is logged for every unresolved case of every column.
C5_OneWarningPerUnresolvedCase ==
    Built => \A c \in DeclaredColumns \cup EdgeColumns : WarningsFor(c) = UnresolvedCases(c)

\* C6 as stated: when the normalized SQL matches the direct-alias pattern (and
\* with it the fallback pattern), _infer_source_column returns an aliased
\* identifier and not the target name.
C6_AliasNeverTarget ==
    (Inferred /\ DirectAliasAt(Normalize(compiled_code), target_column) # {}) =>
        /\ \E i \in DirectAliasAt(Normalize(compiled_code), target_column) :
              source_column = Some(Normalize(compiled_code)[i])
        /\ source_column # Some(target_column)

\* C6 amended: when the normalized SQL matches the direct-alias pattern (and
\* with it the fallback pattern), _infer_source_column returns the word of the
\* leftmost "<word> AS <target>"; that word is the target name only where the
\* SQL aliases the target name to itself.
C6_LeftmostAlias ==
    (Inferred /\ DirectAliasAt(Normalize(compiled_code), target_column) # {}) =>
        source_column =
            Some(Normalize(compiled_code)[Min(DirectAliasAt(Normalize(compiled_code), target_column))])

\* C6 witness: the SQL matches both patterns and the aliased word, not the
\* target name, is returned.
C6_Witness ==
    /\ Inferred
    /\ DirectAliasAt(Normalize(compiled_code), target_column) # {}
    /\ MentionedAt(Normalize(compiled_code), target_column) # {}
    /\ source_column # None
    /\ source_column # Some(target_column)

\* C7 as stated: a wildcard edge into column c gives c the input field
\* {namespace, source name, foo} for any "foo AS c" the compiled SQL contains,
\* and only that field when it is the only edge into c.
C7_AnyAliasResolvesWildcard ==
    Built =>
        \A c \in EdgeColumns : \A e \in WildcardEdges(c) : \A i \in DirectAliasAt(TargetSql, c) :
            /\ InputField(SourceName(e), TargetSql[i]) \in FieldsOfEntry(c)
            /\ ColumnEdges(c) = {e} =>
                  column_lineage[c].inputFields = <<InputField(SourceName(e), TargetSql[i])>>

\* C7 amended: a wildcard edge into column c gives c the input field
\* {namespace, source name, foo} where foo is the word of the leftmost
\* "<word> AS c" of the compiled SQL, and only that field when it is the only
\* edge into c.
C7_LeftmostAliasResolvesWildcard ==
    Built =>
        \A c \in EdgeColumns : \A e \in WildcardEdges(c) :
            DirectAliasAt(TargetSql, c) # {} =>
                LET foo == TargetSql[Min(DirectAliasAt(TargetSql, c))]
                IN  /\ InputField(SourceName(e), foo) \in FieldsOfEntry(c)
                    /\ ColumnEdges(c) = {e} =>
                          column_lineage[c].inputFields = <<InputField(SourceName(e), foo)>>

\* C7 witness: a wildcard edge is the only edge into a column that the SQL aliases.
C7_Witness ==
    /\ Built
    /\ \E c \in EdgeColumns : \E e \in WildcardEdges(c) :
        /\ ColumnEdges(c) = {e}
        /\ DirectAliasAt(TargetSql, c) # {}
        /\ Len(column_lineage[c].inputFields) = 1

\* Edges into column c whose source id has no node in the manifest.
DanglingEdges(c) == {i \in ColumnEdges(c) : ManifestEdges[i].source \notin DOMAIN manifest.nodes}

\* C8: with an edge source, a dependsOn id or the target id absent from the
\* manifest nodes, build_column_lineage returns: an edge from a missing source
\* contributes its input field under the name "..", a missing dependency
\* supplies no table, and a missing target gets entries from its edges only.
C8_DanglingReferences ==
    Built =>
        /\ \A c \in EdgeColumns : \A i \in DanglingEdges(c) \ WildcardEdges(c) :
              InputField("..", ManifestEdges[i].sourceColumn) \in FieldsOfEntry(c)
        /\ \A c \in DOMAIN column_lineage \ EdgeColumns : \A f \in FieldsOfEntry(c) :
              \E i \in 1..Len(DependsOn) :
                  DependsOn[i] \in DOMAIN manifest.nodes /\ f.name = DependencyName(i)
        /\ target_node_id \notin DOMAIN manifest.nodes => DOMAIN column_lineage = EdgeColumns

\* C8 witness: the call returned for a target that is not in the manifest and
\* has an edge from a source that is not in the manifest.
C8_Witness ==
    /\ Built
    /\ target_node_id \notin DOMAIN manifest.nodes
    /\ \E c \in DOMAIN column_lineage : DanglingEdges(c) \ WildcardEdges(c) # {}

\* C9: with empty or absent compiledCode the returned map holds entries from
\* explicit non-wildcard edges only.
C9_EmptySqlOnlyExplicitEdges ==
    (Built /\ TargetCode = <<>>) =>
        /\ DOMAIN column_lineage = {c \in EdgeColumns : ColumnEdges(c) \ WildcardEdges(c) # {}}
        /\ \A c \in DOMAIN column_lineage :
              /\ column_lineage[c].transformationType = "IDENTITY"
              /\ FieldsOfEntry(c) =
                    {InputField(SourceName(i), ManifestEdges[i].sourceColumn) :
                        i \in ColumnEdges(c) \ WildcardEdges(c)}

\* create_openlineage_event returned an event.
EventBuilt == "create_openlineage_event" \in returned /\ event # None

\* C10: the columnLineage facet is on the job iff it is on the single output
\* iff build_column_lineage returned a map with a key; both facets then carry
\* that map as fields, and no facet carries an empty map.
C10_FacetIffLineage ==
    EventBuilt =>
        LET job_facets == event[1].job.facets
            output_facets == event[1].outputs[1].facets
        IN  /\ Len(event[1].outputs) = 1
            /\ ("columnLineage" \in DOMAIN job_facets) <=> (DOMAIN column_lineage # {})
            /\ ("columnLineage" \in DOMAIN output_facets) <=> (DOMAIN column_lineage # {})
            /\ "columnLineage" \in DOMAIN job_facets =>
                  /\ job_facets["columnLineage"].fields = column_lineage
                  /\ DOMAIN job_facets["columnLineage"].fields # {}
            /\ "columnLineage" \in DOMAIN output_facets =>
                  /\ output_facets["columnLineage"].fields = column_lineage
                  /\ DOMAIN output_facets["columnLineage"].fields # {}

\* C10 witness: an event that carries the facet on the job and on the output.
C10_Witness ==
    /\ EventBuilt
    /\ "columnLineage" \in DOMAIN event[1].job.facets
    /\ "columnLineage" \in DOMAIN event[1].outputs[1].facets

\* Indices of the edges into the node, with or without targetColumn.
EdgesInto == {i \in 1..Len(ManifestEdges) : ManifestEdges[i].target = target_node_id}

\* Those whose source id has a node in the manifest.
ResolvableEdgesInto == {i \in EdgesInto : ManifestEdges[i].source \in DOMAIN manifest.nodes}

\* The names of the event's inputs, in order.
InputNames == [k \in 1..Len(event[1].inputs) |-> event[1].inputs[k].name]

\* The inputs name exactly the sources of the edges in the set among,
\* each once, in order of first occurrence in the edge list.
InputsAreSourcesOf(among) ==
    /\ {InputNames[k] : k \in 1..Len(InputNames)} = {SourceName(i) : i \in among}
    /\ \A k, l \in 1..Len(InputNames) :
          k < l =>
              /\ InputNames[k] # InputNames[l]
              /\ Min({i \in among : SourceName(i) = InputNames[k]})
                    < Min({i \in among : SourceName(i) = InputNames[l]})

Synced == sync.pc = "done"

\* Number of lineage POSTs attempted for the node.
PostsFor(node_id) ==
    Cardinality({k \in 1..Len(sync.requests) :
                    sync.requests[k].method = "POST" /\ sync.requests[k].node = node_id})

\* C12: in one sync_model pass one lineage POST is attempted for every node
\* of nodeType model that passes the model-name filter and none for any other
\* node, whatever the outcome of the POSTs before it; no POST is repeated.
C12_OnePostPerSelectedModel ==
    /\ \A node_id \in DOMAIN Get(manifest, "nodes", EmptyDict) : PostsFor(node_id) <= 1
    /\ Synced =>
          \A node_id \in DOMAIN manifest.nodes :
              PostsFor(node_id) =
                  IF Selected(manifest.nodes[node_id], sync.model_name) THEN 1 ELSE 0

\* C12 witness: a pass has returned in which a POST failed and a POST for a
\* later node followed it.
C12_Witness ==
    /\ Synced
    /\ \E k, l \in 1..Len(sync.requests) :
          /\ k < l
          /\ sync.requests[k].method = "POST" /\ sync.requests[k].outcome # "ok"
          /\ sync.requests[l].method = "POST" /\ sync.requests[l].node # sync.requests[k].node

\* C13: every entry that build_column_lineage creates from an explicit edge
\* has transformationType IDENTITY, also where a wildcard edge was resolved
\* through a function-call, arithmetic or CASE pattern.
C13_ExplicitEdgesAreIdentity ==
    Built => \A c \in EdgeColumns \cap DOMAIN column_lineage :
                column_lineage[c].transformationType = "IDENTITY"

\* C13 witness: an entry resolved from a wildcard edge alone, for a column
\* that the classifier gives another label than IDENTITY.
C13_Witness ==
    /\ Built
    /\ \E c \in EdgeColumns :
        /\ WildcardEdges(c) = ColumnEdges(c)
        /\ column_lineage[c].inputFields # <<>>
        /\ _determine_transformation_type(c, TargetCode) # "IDENTITY"

\* Every call made so far that built the map of a node returned the same map
\* as every other call for that node.
SameLineagePerNode(history) ==
    \A i, j \in 1..Len(history) :
        (/\ history[i].node = history[j].node
         /\ history[i].lineage # None
         /\ history[j].lineage # None)
        => history[i].lineage = history[j].lineage

ColumnNames == {"x", "y"}

\* The token sequence sub occurs in s.
Contains(s, sub) ==
    \E i \in 0..(Len(s) - Len(sub)) : SubSeq(s, i + 1, i + Len(sub)) = sub

\* The normalized SQL has the projection "<expression> as <target_column>"
\* and no other alias of the target.
ProjectionOfTargetIs(expression) ==
    /\ Contains(Normalize(compiled_code), Aliased(expression, target_column))
    /\ Cardinality(DirectAliasAt(Normalize(compiled_code), target_column)) <= 1

\* C16: for SQL whose projection for the target is
\* "<identifier> <op> <number> AS <target>", _infer_source_column returns
\* <identifier>.
C16_ArithmeticReturnsIdentifier ==
    Inferred =>
        \A id \in ColumnNames, op \in ArithmeticOps, n \in Numbers :
            ProjectionOfTargetIs(<<id, " ", op, " ", n>>) => source_column = Some(id)

\* C17: for SQL whose projection for the target is
\* "CASE WHEN <identifier> = ... THEN <identifier2> ... AS <target>",
\* _infer_source_column returns the condition column <identifier>.
C17_CaseReturnsConditionColumn ==
    Inferred =>
        \A id \in ColumnNames, id2 \in ColumnNames :
            ProjectionOfTargetIs(CaseWhen(id, id2)) => source_column = Some(id)

\* <<condA, colB>> without the columns that no dependency declares.
DeclaredAmong(cols) == SelectSeq(cols, LAMBDA col : Declarers(col) # {})

\* C18: for a declared column c with no explicit edge whose projection is
\* "SUM(CASE WHEN condA = ... THEN colB ... END) AS c", the entry of c holds
\* input fields for condA and colB in that order, each under the name of a
\* dependency that declares it: two fields when both are declared.
C18_SumCaseYieldsBothColumns ==
    Built =>
        \A c \in DeclaredColumns \ EdgeColumns : \A condA \in ColumnNames, colB \in ColumnNames :
            (/\ Contains(TargetSql, Aliased(SumCase(condA, colB), c))
             /\ DeclaredAmong(<<condA, colB>>) # <<>>)
            => /\ c \in DOMAIN column_lineage
               /\ Len(column_lineage[c].inputFields) = Len(DeclaredAmong(<<condA, colB>>))
               /\ \A k \in 1..Len(column_lineage[c].inputFields) :
                    /\ column_lineage[c].inputFields[k].field = DeclaredAmong(<<condA, colB>>)[k]
                    /\ \E i \in Declarers(DeclaredAmong(<<condA, colB>>)[k]) :
                          column_lineage[c].inputFields[k].name = DependencyName(i)

\* The normalized SQL of the target has "<expression> as c" as a whole
\* projection: after "select " or after ", ".
HasProjection(expression, c) ==
    \/ Contains(TargetSql, <<"select", " ">> \o Aliased(expression, c))
    \/ Contains(TargetSql, <<",", " ">> \o Aliased(expression, c))

\* Columns that got their entry in Step 2.
InferredColumns == DOMAIN column_lineage \ EdgeColumns

\* C19: a column with no explicit edge that is produced by a direct alias
\* "<identifier> AS <target>" has transformationType IDENTITY, whatever other
\* projections the statement has.
C19_DirectAliasIsIdentity ==
    Built =>
        \A c \in InferredColumns : \A id \in ColumnNames :
            HasProjection(<<id>>, c) => column_lineage[c].transformationType = "IDENTITY"

\* C20: every entry created in Step 2 carries the label that
\* _determine_transformation_type returns for (targetColumn, compiledCode),
\* whichever matcher supplied the source columns; "sum(<identifier>) as c"
\* gets the source <identifier> and the label AGGREGATION.
C20_Step2LabelIsClassifierLabel ==
    Built =>
        \A c \in InferredColumns :
            /\ column_lineage[c].transformationType = _determine_transformation_type(c, TargetCode)
            /\ \A id \in ColumnNames :
                  HasProjection(FunctionCall("sum", id), c) =>
                      /\ column_lineage[c].transformationType = "AGGREGATION"
                      /\ \A f \in FieldsOfEntry(c) : f.field = id

\* C20 witness: a Step 2 entry for a column produced by "sum(<identifier>)",
\* with that identifier as its source.
C20_Witness ==
    /\ Built
    /\ \E c \in InferredColumns : \E id \in ColumnNames :
        /\ HasProjection(FunctionCall("sum", id), c)
        /\ \E f \in FieldsOfEntry(c) : f.field = id

\* _determine_transformation_type has returned transformation.
Classified == "_determine_transformation_type" \in returned

\* C21: _determine_transformation_type returns one of the five labels, that
\* of the first probe that matches in the order aggregate-function alias,
\* CASE WHEN, arithmetic with a number, single-argument function call, and
\* IDENTITY when none matches; "SUM(CASE WHEN ...) AS t" is AGGREGATION.
C21_FirstProbeDecides ==
    Classified =>
        LET s == Normalize(compiled_code)
            t == target_column
            aggregation == AggregationProbe(s, t)
            conditional == ConditionalProbe(s, t)
            arithmetic == ArithmeticAt(s, t) # {}
            function == FunctionAliasAt(s, t) # {}
        IN  /\ transformation \in
                  {Some(l) : l \in {"AGGREGATION", "CONDITIONAL", "ARITHMETIC", "FUNCTION", "IDENTITY"}}
            /\ aggregation => transformation = Some("AGGREGATION")
            /\ (~aggregation /\ conditional) => transformation = Some("CONDITIONAL")
            /\ (~aggregation /\ ~conditional /\ arithmetic) => transformation = Some("ARITHMETIC")
            /\ (~aggregation /\ ~conditional /\ ~arithmetic /\ function)
                  => transformation = Some("FUNCTION")
            /\ (~aggregation /\ ~conditional /\ ~arithmetic /\ ~function)
                  => transformation = Some("IDENTITY")
            /\ \A id \in ColumnNames, id2 \in ColumnNames :
                  Contains(s, Aliased(SumCase(id, id2), t)) => transformation = Some("AGGREGATION")

\* C21 witness: the classifier returned AGGREGATION for SQL whose projection
\* of the target is SUM(CASE WHEN ...), which the CASE WHEN probe matches too.
C21_Witness ==
    /\ Classified
    /\ \E id \in ColumnNames, id2 \in ColumnNames :
          Contains(Normalize(compiled_code), Aliased(SumCase(id, id2), target_column))
    /\ ConditionalProbe(Normalize(compiled_code), target_column)
    /\ transformation = Some("AGGREGATION")

\* Columns of the target that the SUM(CASE ...) pattern of Step 2 matches.
SumCaseColumns == {c \in DeclaredColumns \ EdgeColumns : SumCaseAt(TargetSql, c) # {}}

\* The fields of the entry of column c, in order.
EntryFieldNames(c) ==
    [k \in 1..Len(column_lineage[c].inputFields) |-> column_lineage[c].inputFields[k].field]

\* C22: on the SUM(CASE ...) path of Step 2 an identifier that no dependency
\* declares is dropped and no warning is logged for the column: the entry holds
\* the fields of the declared identifiers only, and when neither is declared
\* the column gets no entry, whatever the single-column matchers would find.
C22_UndeclaredIdentifierDropped ==
    Built =>
        \A c \in SumCaseColumns :
            LET kept == DeclaredAmong(SumCaseGroups(TargetSql, c))
            IN  /\ WarningsFor(c) = 0
                /\ kept = <<>> => c \notin DOMAIN column_lineage
                /\ kept # <<>> => c \in DOMAIN column_lineage /\ EntryFieldNames(c) = kept

\* C22 witness: the SUM(CASE ...) pattern captured one declared and one
\* undeclared identifier, and the entry of the column has the declared one only.
C22_Witness ==
    /\ Built
    /\ \E c \in SumCaseColumns :
          /\ SumCaseGroups(TargetSql, c) = <<"x", "z">>
          /\ DeclaredAmong(SumCaseGroups(TargetSql, c)) = <<"x">>
          /\ c \in DOMAIN column_lineage
          /\ EntryFieldNames(c) = <<"x">>

\* The input fields that the explicit edges into column c give: the
\* sourceColumn of each edge under the name of its source, and for a wildcard
\* edge the column that _infer_source_column finds, if any.
EdgeFields(c) ==
    {InputField(SourceName(i), ManifestEdges[i].sourceColumn) : i \in ColumnEdges(c) \ WildcardEdges(c)}
    \cup {InputField(SourceName(i), _infer_source_column(c, TargetCode)[1]) :
            i \in {j \in WildcardEdges(c) : _infer_source_column(c, TargetCode) # None}}

\* C23: Step 2 gives entries to declared columns only, and only to columns
\* without an entry from Step 1: a column named by an explicit edge keeps
\* exactly the input fields of its edges and the transformationType IDENTITY.
C23_Step2KeepsStep1Entries ==
    Built =>
        /\ InferredColumns \subseteq DeclaredColumns
        /\ \A c \in EdgeColumns :
              /\ c \in DOMAIN column_lineage
              /\ FieldsOfEntry(c) = EdgeFields(c)
              /\ column_lineage[c].transformationType = "IDENTITY"

\* C23 witness: a declared column has a resolved explicit edge, and inference
\* on the compiled SQL would give it an input field that its edges do not give.
C23_Witness ==
    /\ Built
    /\ \E c \in EdgeColumns \cap DeclaredColumns :
          /\ column_lineage[c].inputFields # <<>>
          /\ \E k \in 1..Len(_infer_column_dependencies(manifest, c, TargetCode, target_node_id)) :
                _infer_column_dependencies(manifest, c, TargetCode, target_node_id)[k] \notin EdgeFields(c)

\* One of patterns 1 to 5 of _infer_source_column matches the normalized SQL s.
AliasPatternMatches(s, t) ==
    \/ DirectAliasAt(s, t) # {}
    \/ FunctionAliasAt(s, t) # {}
    \/ ArithmeticAt(s, t) # {}
    \/ CaseWhenAt(s, t) # {}
    \/ SumCaseAt(s, t) # {}

\* C24: when none of the alias patterns matches, _infer_source_column returns
\* the target column name if that name is a word of the normalized SQL, and
\* None only when it is not.
C24_FallbackReturnsTarget ==
    (Inferred /\ ~AliasPatternMatches(Normalize(compiled_code), target_column)) =>
        /\ MentionedAt(Normalize(compiled_code), target_column) # {}
              => source_column = Some(target_column)
        /\ MentionedAt(Normalize(compiled_code), target_column) = {}
              => source_column = None

\* C24 witness: no alias pattern matches SQL that mentions the target column,
\* and the target column name was returned.
C24_Witness ==
    /\ Inferred
    /\ ~AliasPatternMatches(Normalize(compiled_code), target_column)
    /\ MentionedAt(Normalize(compiled_code), target_column) # {}
    /\ source_column = Some(target_column)

\* Names of the single-argument functions of the SQL statements.
FunctionNames == {"upper", "sum"}

\* The normalized SQL aliases "<expression> as <target_column>", and nothing
\* else, to the target column.
OnlyProjectionOfTargetIs(expression) ==
    /\ Contains(Normalize(compiled_code), Aliased(expression, target_column))
    /\ Cardinality({i \in 1..Len(Normalize(compiled_code)) :
                       AliasAt(Normalize(compiled_code), i, target_column)}) = 1

\* C25: for SQL whose projection for the target is the single-argument
\* function call "<func>(<identifier>) AS <target>", _infer_source_column
\* returns <identifier>, not the function name and not the target name.
C25_FunctionCallReturnsArgument ==
    Inferred =>
        \A func \in FunctionNames, id \in ColumnNames :
            OnlyProjectionOfTargetIs(FunctionCall(func, id)) =>
                /\ source_column = Some(id)
                /\ source_column # Some(func)
                /\ source_column # Some(target_column)

\* C25 witness: the projection of the target is a function call, the SQL
\* mentions the target in the alias, and the argument was returned.
C25_Witness ==
    /\ Inferred
    /\ \E func \in FunctionNames, id \in ColumnNames :
          /\ OnlyProjectionOfTargetIs(FunctionCall(func, id))
          /\ MentionedAt(Normalize(compiled_code), target_column) # {}
          /\ source_column = Some(id)

\* C26: for SQL whose projection for the target is
\* "SUM(CASE WHEN <cond> = ... THEN <value> ... END) AS <target>",
\* _infer_source_column returns the value column <value>.
C26_SumCaseReturnsValueColumn ==
    Inferred =>
        \A cond \in ColumnNames, value \in ColumnNames :
            OnlyProjectionOfTargetIs(SumCase(cond, value)) => source_column = Some(value)

\* ------------------------------------------------------------------------
\* The same SQL with its whitespace laid out differently
\* ------------------------------------------------------------------------

\* Number of whitespace characters that a reflowed text has besides the
\* single spaces of the normalized text.
MaxReflows == 2

\* Runs of whitespace that a reflow writes.
WhitespaceRuns == {<<" ">>, <<"\n">>, <<"\t", " ">>}

\* compiledCode values before any reflow.
ReflowSql ==
    {<<>>,
     Select(<<Aliased(FunctionCall("upper", "x"), "t"), Aliased(<<"y">>, "u")>>),
     Select(<<Aliased(<<"x", " ", "/", " ", "100">>, "t")>>)}

\* A manifest whose target has the compiledCode code, a wildcard edge into
\* its column u and no edge into its column t.
ReflowManifest(code) ==
    [nodes |-> [A |-> NodeA, B |-> NodeB, T |-> NodeT(<<"A", "B">>, code)],
     lineage |-> [edges |-> <<Edge("A", "*", "T", "u")>>]]

\* Positions where a maximal run of whitespace starts.
RunStarts(code) == {i \in 1..Len(code) : IsWs(code[i]) /\ ~IsWs(Tok(code, i - 1))}

\* The position where the maximal run of whitespace that starts at i ends.
RECURSIVE RunEnd(_, _)
RunEnd(code, i) == IF IsWs(Tok(code, i + 1)) THEN RunEnd(code, i + 1) ELSE i

\* The texts that one reflow step makes of code: a maximal run replaced by
\* another run, or whitespace added in front or at the end.
Reflows(code) ==
    {SubSeq(code, 1, i - 1) \o run \o SubSeq(code, RunEnd(code, i) + 1, Len(code)) :
        i \in RunStarts(code), run \in WhitespaceRuns}
    \cup {run \o code : run \in IF IsWs(Tok(code, 1)) THEN {} ELSE WhitespaceRuns}
    \cup {code \o run : run \in IF IsWs(Tok(code, Len(code))) THEN {} ELSE WhitespaceRuns}

\* How far the layout of code is from that of the normalized text: the
\* whitespace characters that strip() or the re.sub removes or rewrites.
Reflowed(code) ==
    Cardinality({i \in 1..Len(code) :
        /\ IsWs(code[i])
        /\ code[i] # " " \/ i = 1 \/ i = Len(code) \/ IsWs(Tok(code, i - 1))})

InitReflow ==
    /\ sync = NoSync
    /\ calls = <<>>
    /\ event = None
    /\ returned = {}
    /\ warnings = <<>>
    /\ compiled_code \in ReflowSql
    /\ manifest = ReflowManifest(compiled_code)
    /\ target_node_id = "T"
    /\ column_lineage = EmptyDict
    /\ target_column \in TargetColumns
    /\ source_column = None
    /\ transformation = None

\* The manifest is written again with the SQL of the target laid out
\* differently, and read again.
Reflow ==
    /\ \E code \in Reflows(compiled_code) :
        /\ code # compiled_code
        /\ Reflowed(code) <= MaxReflows
        /\ compiled_code' = code
        /\ manifest' = ReflowManifest(code)
    /\ UNCHANGED <<returned, target_node_id, column_lineage, warnings, event,
                   target_column, source_column, transformation, sync, calls>>

\* build_column_lineage("T") on the manifest as it is now
BuildTargetLineage ==
    /\ "build_column_lineage" \notin returned
    /\ \E r \in {build_column_lineage(manifest, target_node_id)} :
        /\ column_lineage' = r.lineage
        /\ warnings' = warnings \o r.log
    /\ returned' = returned \cup {"build_column_lineage"}
    /\ UNCHANGED <<manifest, target_node_id, event, target_column, compiled_code,
                   source_column, transformation, sync, calls>>

NextReflow == Reflow \/ InferSourceColumn \/ DetermineTransformationType \/ BuildTargetLineage

SpecReflow == InitReflow /\ [][NextReflow]_vars

\* C27: inference results are invariant under whitespace reflow: what
\* _infer_source_column, _determine_transformation_type and
\* build_column_lineage returned for a text is what they return for every
\* text made of it by replacing whitespace runs by other non-empty runs and by
\* adding leading or trailing whitespace.
C27_ReflowInvariant ==
    /\ Inferred => source_column = _infer_source_column(target_column, compiled_code)
    /\ Classified =>
          transformation = Some(_determine_transformation_type(target_column, compiled_code))
    /\ Built => column_lineage = build_column_lineage(manifest, target_node_id).lineage

\* C27 witness: the three functions returned results with a column and a
\* label other than IDENTITY in them, and the text now has a tab and a space
\* where the normalized text has one space.
C27_Witness ==
    /\ Inferred /\ Classified /\ Built
    /\ source_column \notin {None, Some(target_column)}
    /\ transformation # Some("IDENTITY")
    /\ DOMAIN column_lineage = {"t", "u"}
    /\ Len(Strip(compiled_code)) > Len(Normalize(compiled_code))
    /\ \E i \in 1..Len(compiled_code) : compiled_code[i] = "\t"

\* Positions in the normalized SQL s where "<space>as<space><target>" starts.
AliasPositions(s, t) == {i \in 1..Len(s) : AliasAt(s, i, t)}

\* The words of the projection that ends at position i: those after the
\* "select" or the comma before it.
ProjectionWords(s, i) ==
    {s[k] : k \in {j \in 1..i : /\ IsWord(s[j])
                                 /\ j > Max({h \in 1..i : s[h] = "," \/ Lower(s[h]) = "select"})}}

\* C28: the source column that _infer_source_column returns for a target
\* with an aliased projection is a word of the target's own projection (or the
\* target name itself): the CASE WHEN of an earlier projection never supplies it.
C28_SourceFromOwnProjection ==
    (/\ Inferred
     /\ source_column # None
     /\ AliasPositions(Normalize(compiled_code), target_column) # {})
    => \/ source_column = Some(target_column)
       \/ \E i \in AliasPositions(Normalize(compiled_code), target_column) :
             source_column[1] \in ProjectionWords(Normalize(compiled_code), i)

\* The datasets (namespace, name) named by the input fields of the
\* columnLineage facet of the event's output.
FacetDatasets ==
    LET facets == event[1].outputs[1].facets
        fields == IF "columnLineage" \in DOMAIN facets
                  THEN facets["columnLineage"].fields ELSE EmptyDict
    IN  UNION {{<<fields[c].inputFields[k].namespace, fields[c].inputFields[k].name>> :
                  k \in 1..Len(fields[c].inputFields)} : c \in DOMAIN fields}

\* The datasets (namespace, name) of the event's inputs list.
InputDatasets ==
    {<<event[1].inputs[k].namespace, event[1].inputs[k].name>> : k \in 1..Len(event[1].inputs)}

\* C29: in every event built by create_openlineage_event, each dataset named
\* by an input field of the columnLineage facet is in the event's inputs list,
\* also for fields inferred through dependsOn and for fields from edges whose
\* source node is missing from the manifest.
C29_FacetDatasetsAreInputs == EventBuilt => FacetDatasets \subseteq InputDatasets

\* The requests that send_event made for the event of the node, in order.
RequestsOf(node_id) == SelectSeq(sync.requests, LAMBDA r : r.node = node_id)

\* send_event is between two requests for the node.
Sending(node_id) == sync.node = node_id /\ sync.pc \in {"put_dataset", "post"}

\* Number of lineage POSTs that were answered with success.
PostsAnswered ==
    Cardinality({k \in 1..Len(sync.requests) :
                    sync.requests[k].method = "POST" /\ sync.requests[k].outcome = "ok"})

\* C30: send_event makes its requests in the order source PUT, dataset PUT,
\* lineage POST; the dataset PUT is made only after a source PUT that
\* succeeded; the POST is made once, last, whether the PUTs succeeded, failed
\* or raised; and send_event returns True, which sync_model counts, exactly
\* when the POST succeeded.
C30_SendEventOrder ==
    /\ sync.success_count = PostsAnswered
    /\ \A node_id \in DOMAIN Get(manifest, "nodes", EmptyDict) :
          LET rs == RequestsOf(node_id)
          IN  /\ Len(rs) <= 3
              /\ Len(rs) >= 1 => rs[1].method = "PUT" /\ rs[1].resource = "source"
              /\ \A k \in 1..Len(rs) :
                    /\ rs[k].resource = "source" => k = 1
                    /\ rs[k].resource = "dataset" =>
                          rs[k].method = "PUT" /\ k = 2 /\ rs[1].outcome = "ok"
                    /\ rs[k].resource = "lineage" =>
                          /\ rs[k].method = "POST"
                          /\ k = Len(rs)
                          /\ k = (IF rs[1].outcome = "ok" THEN 3 ELSE 2)
              /\ (Len(rs) >= 1 /\ ~Sending(node_id)) => rs[Len(rs)].resource = "lineage"

\* C30 witness: a pass has returned in which one send_event made no dataset
\* PUT after a source PUT that raised, another made its POST after a dataset
\* PUT that failed, and both POSTs succeeded and were counted.
C30_Witness ==
    /\ Synced
    /\ sync.success_count = 2
    /\ \E n1, n2 \in DOMAIN manifest.nodes :
          /\ Len(RequestsOf(n1)) = 2
          /\ RequestsOf(n1)[1].outcome = "raised"
          /\ RequestsOf(n1)[2].outcome = "ok"
          /\ Len(RequestsOf(n2)) = 3
          /\ RequestsOf(n2)[2].outcome = "failed"
          /\ RequestsOf(n2)[3].outcome = "ok"

====
